---- MODULE Spec2Model ----
(***************************************************************************)
(* Model of the live-chat relay in src/main.py: the rolling ChatBuffer,    *)
(* the websocket fan-out (ws_handler, ChatBuffer.broadcast) and the        *)
(* ingestion loop of main_async with its recreate paths.                   *)
(*                                                                         *)
(* Scheduling.  Everything runs on one asyncio loop, so the code between   *)
(* two awaits that suspend is one atomic step.  The awaits that suspend    *)
(* are: asyncio.to_thread (line 287), interruptible_wait / asyncio.sleep   *)
(* (lines 279-323), ws.send (lines 138, 258), `async for _ in ws` (line    *)
(* 263) and asyncio.gather (line 334).  ws.send hands the frame to the     *)
(* connection when it is called (frames leave a connection in call order)  *)
(* or raises at once on a closed connection; after handing the frame over  *)
(* it waits for the connection to drain, and raises if the connection      *)
(* closes while it waits.                                                  *)
(*                                                                         *)
(* Time.  The code reads time.monotonic() only to form differences, so     *)
(* the model keeps ages (time elapsed since an instant) that a Tick        *)
(* action advances; an age saturates at MaxAge, which is at least every    *)
(* stale_timeout the model draws, so every comparison the code makes has   *)
(* the value it has in the code.                                           *)
(***************************************************************************)
EXTENDS Integers, Sequences, FiniteSets, TLC

\* ------------------------------------------------------------------ bounds
\* Number of subscriber connections that may ever connect.
NumConns == 2
\* Message ids the source may report.
MaxId == 2
\* Largest --max-messages argument drawn (0 exercises the max(1, .) clamp).
MaxCap == 2
\* Longest batch one poll returns.
MaxBatchLen == 2
\* Number of non-empty batches the source produces in a run.
MaxBatches == 2
\* Largest --stale-timeout drawn, and the value at which ages saturate.
MaxAge == 2
\* Largest --retry-wait drawn.
MaxRetryWait == 1
\* Largest source-handle identity.
MaxHandle == 2

\* Message ids, payloads and --max-messages arguments drawn when add_message
\* is exercised on its own.
BufMaxId == 4
BufMaxText == 2
BufMaxCap == 3

Conns == 1..NumConns
Ids == 1..MaxId
Handles == 0..MaxHandle
\* Task identities: the ingestion loop, and one ws_handler per connection.
Loop == 0
Tasks == {Loop} \cup Conns

VARIABLES
    max_messages,   \* ChatBuffer.max_messages
    buffer,         \* ChatBuffer._buffer: sequence of ChatMessage, oldest first
    ids,            \* ChatBuffer._ids
    added,          \* return value of the latest add_message call
    evicted,        \* history: ids of the messages line 150 has popped so far
    clients,        \* ChatBuffer._clients
    stale_timeout,  \* args.stale_timeout
    retry_wait,     \* args.retry_wait
    pc_loop,        \* where the ingestion loop of main_async is suspended
    chat,           \* the source handle main_async holds
    live,           \* source handles constructed and not yet terminated
    last_item_age,  \* time.monotonic() - last_item_ts
    waited,         \* time spent so far in the current interruptible_wait
    close_tasks,    \* connections whose close task of the finally block runs
    h_pc,           \* per connection: where its ws_handler is suspended
    conn,           \* per connection: state of the transport
    bc,             \* per task: the broadcast call it is suspended in
    sent,           \* per connection: the frames handed to it, in order
    version,        \* history: number of dirty poll cycles so far
    batches,        \* history: number of non-empty batches polled so far
    accepts,        \* history: number of items the loop's add_message calls accepted
    accept_age,     \* history: time since a cycle last accepted an item
    arrive_age,     \* history: time since a poll last returned an item
    reset_age       \* history: time since line 318 last reset last_item_ts

bufvars == <<max_messages, buffer, ids, added, evicted>>
loopvars == <<pc_loop, chat, live, last_item_age, waited, close_tasks>>
hubvars == <<clients, h_pc, conn, bc, sent>>
histvars == <<version, batches, accepts, accept_age, arrive_age, reset_age>>
argvars == <<stale_timeout, retry_wait>>
vars == <<bufvars, loopvars, hubvars, histvars, argvars>>

\* ------------------------------------------------------------ ChatBuffer
Max(a, b) == IF a >= b THEN a ELSE b
Min(a, b) == IF a <= b THEN a ELSE b

ChatMessage(msg_id, text) == [msg_id |-> msg_id, text |-> text]

\* add_message without line 151: the evicted message's id stays in _ids.
add_message_keeps_evicted_id(buf, idset, cap, msg_id, text) ==
    IF msg_id \in idset
    THEN [buffer |-> buf, ids |-> idset, added |-> FALSE]
    ELSE LET full == Len(buf) >= cap
             b1 == IF full THEN Tail(buf) ELSE buf
         IN [buffer |-> Append(b1, [msg_id |-> msg_id, text |-> text]),
             ids |-> idset \cup {msg_id},
             added |-> TRUE]

\* add_message with a rejected id moved to the newest position: a duplicate
\* refreshes its message instead of leaving the buffer alone.
add_message_refreshes_duplicate(buf, idset, cap, msg_id, text) ==
    IF msg_id \in idset
    THEN [buffer |-> Append(SelectSeq(buf, LAMBDA m : m.msg_id # msg_id),
                            [msg_id |-> msg_id, text |-> text]),
          ids |-> idset, added |-> FALSE]
    ELSE LET full == Len(buf) >= cap
             b1 == IF full THEN Tail(buf) ELSE buf
             i1 == IF full THEN idset \ {Head(buf).msg_id} ELSE idset
         IN [buffer |-> Append(b1, [msg_id |-> msg_id, text |-> text]),
             ids |-> i1 \cup {msg_id},
             added |-> TRUE]

\* add_message with pop() for popleft() at line 150: the newest message is
\* evicted.
add_message_evicts_newest(buf, idset, cap, msg_id, text) ==
    IF msg_id \in idset
    THEN [buffer |-> buf, ids |-> idset, added |-> FALSE]
    ELSE LET full == Len(buf) >= cap
             b1 == IF full THEN SubSeq(buf, 1, Len(buf) - 1) ELSE buf
             i1 == IF full THEN idset \ {buf[Len(buf)].msg_id} ELSE idset
         IN [buffer |-> Append(b1, [msg_id |-> msg_id, text |-> text]),
             ids |-> i1 \cup {msg_id},
             added |-> TRUE]

\* ChatBuffer.add_message as a function of the buffer state: the new
\* _buffer, the new _ids and the value returned.
add_message(buf, idset, cap, msg_id, text) ==
    IF msg_id \in idset
    THEN [buffer |-> buf, ids |-> idset, added |-> FALSE]
    ELSE LET full == Len(buf) >= cap
             b1 == IF full THEN Tail(buf) ELSE buf
             i1 == IF full THEN idset \ {Head(buf).msg_id} ELSE idset
         IN [buffer |-> Append(b1, ChatMessage(msg_id, text)),
             ids |-> i1 \cup {msg_id},
             added |-> TRUE]

IdsOf(buf) == {buf[i].msg_id : i \in 1..Len(buf)}

\* Lines 146-151: the id of the message one add_message call pops (`oldest`),
\* as a set: empty when the call rejects or the buffer has room.
popped(buf, idset, cap, msg_id) ==
    IF msg_id \notin idset /\ Len(buf) >= cap THEN {Head(buf).msg_id} ELSE {}

\* Lines 301-304 with `updated = added` for lines 303-304: only the last
\* item of the batch decides whether the cycle is dirty.
RECURSIVE process_items_last_only(_, _, _, _, _, _)
process_items_last_only(buf, idset, cap, items, updated, last_added) ==
    IF items = <<>>
    THEN [buffer |-> buf, ids |-> idset, updated |-> updated, added |-> last_added]
    ELSE LET r == add_message(buf, idset, cap, Head(items).id, Head(items).message)
         IN process_items_last_only(r.buffer, r.ids, cap, Tail(items), r.added, r.added)

\* Lines 297-304 of main_async: add_message for every item of the batch, in
\* order; `updated` says whether any call returned True.
RECURSIVE process_items(_, _, _, _, _, _)
process_items(buf, idset, cap, items, updated, last_added) ==
    IF items = <<>>
    THEN [buffer |-> buf, ids |-> idset, updated |-> updated, added |-> last_added]
    ELSE LET r == add_message(buf, idset, cap, Head(items).id, Head(items).message)
         IN process_items(r.buffer, r.ids, cap, Tail(items),
                          updated \/ r.added, r.added)

\* The ids popped while the batch is processed, and the number of items of
\* the batch for which add_message returned True.
RECURSIVE evicted_in(_, _, _, _)
evicted_in(buf, idset, cap, items) ==
    IF items = <<>>
    THEN {}
    ELSE LET r == add_message(buf, idset, cap, Head(items).id, Head(items).message)
         IN popped(buf, idset, cap, Head(items).id)
                \cup evicted_in(r.buffer, r.ids, cap, Tail(items))

RECURSIVE accepted_in(_, _, _, _)
accepted_in(buf, idset, cap, items) ==
    IF items = <<>>
    THEN 0
    ELSE LET r == add_message(buf, idset, cap, Head(items).id, Head(items).message)
         IN (IF r.added THEN 1 ELSE 0) + accepted_in(r.buffer, r.ids, cap, Tail(items))

\* -------------------------------------------------------------- rendering
\* --max-lines, at its default: the line trim of render_buffer is disabled.
max_lines == 0

SepLine == [kind |-> "sep", msg_id |-> 0, text |-> 0, bold |-> FALSE]

\* ChatMessage.formatted_header / formatted_header_bold_author: one header
\* per message, the bold variant marking the author.
formatted_header(m, bold) ==
    [kind |-> "header", msg_id |-> m.msg_id, text |-> m.text, bold |-> bold]

\* ChatBuffer._wrap, for headers no longer than max_message_width: one line.
wrap(header) == <<header>>

RECURSIVE render_from(_, _, _)
render_from(buf, bold, idx) ==
    IF idx > Len(buf) THEN <<>>
    ELSE (IF idx > 1 THEN <<SepLine>> ELSE <<>>)
         \o wrap(formatted_header(buf[idx], bold))
         \o render_from(buf, bold, idx + 1)

\* ChatBuffer.render_buffer: separator, the headers with a separator between
\* consecutive messages, separator; then the last max_lines lines if enabled.
render_buffer(buf, bold) ==
    LET out_lines == <<SepLine>> \o render_from(buf, bold, 1) \o <<SepLine>>
        n == Len(out_lines)
    IN IF max_lines > 0 /\ n > max_lines
       THEN SubSeq(out_lines, n - max_lines + 1, n)
       ELSE out_lines

\* The two frame kinds.  `by` (the task that sent the frame) and `ver` (the
\* number of dirty cycles the rendered buffer has seen) are history fields.
DataFrame(c) == [kind |-> "Data", text |-> <<>>, by |-> c, ver |-> 0]
ChatBufferFrame(t) ==
    [kind |-> "ChatBuffer", text |-> render_buffer(buffer, TRUE), by |-> t, ver |-> version]

\* -------------------------------------------------------------- broadcast
NoBc == [active |-> FALSE, frame |-> DataFrame(0), cur |-> 0, todo |-> <<>>,
         stale |-> {}, start |-> {}]

\* list(self._clients): the set in some iteration order.
Orders(S) ==
    {o \in [1..Cardinality(S) -> S] : \A i, j \in 1..Cardinality(S) : o[i] = o[j] => i = j}

\* broadcast without the try/except of lines 137-140: the first failing send
\* ends the loop over the connections.
run_sends_abort(todo, stale) ==
    IF todo = <<>>
    THEN [done |-> TRUE, cur |-> 0, todo |-> <<>>, stale |-> stale]
    ELSE IF conn[Head(todo)] = "closed"
         THEN [done |-> TRUE, cur |-> 0, todo |-> <<>>, stale |-> stale \cup {Head(todo)}]
         ELSE [done |-> FALSE, cur |-> Head(todo), todo |-> Tail(todo), stale |-> stale]

\* Lines 136-140 of ChatBuffer.broadcast, run from the head of `todo` until a
\* send suspends: a send to a closed connection raises at once and the
\* connection joins `stale`; the first connection that is not closed takes
\* the frame and the task suspends in that send (cur).  done: the loop over
\* the connections is over.
RECURSIVE run_sends(_, _)
run_sends(todo, stale) ==
    IF todo = <<>>
    THEN [done |-> TRUE, cur |-> 0, todo |-> <<>>, stale |-> stale]
    ELSE IF conn[Head(todo)] = "closed"
         THEN run_sends(Tail(todo), stale \cup {Head(todo)})
         ELSE [done |-> FALSE, cur |-> Head(todo), todo |-> Tail(todo), stale |-> stale]

\* The effect on the hub of task t running broadcast up to its next
\* suspension (r = run_sends(...)): either the frame goes to r.cur and t
\* suspends, or the loop is over and lines 141-142 discard the stale set.
broadcast_step(t, frame, start, r) ==
    IF r.done
    THEN /\ clients' = clients \ r.stale
         /\ sent' = sent
         /\ bc' = [bc EXCEPT ![t] = NoBc]
    ELSE /\ clients' = clients
         /\ sent' = [sent EXCEPT ![r.cur] = Append(@, frame)]
         /\ bc' = [bc EXCEPT ![t] = [active |-> TRUE, frame |-> frame, cur |-> r.cur,
                                     todo |-> r.todo, stale |-> r.stale, start |-> start]]

\* The awaited send of a suspended broadcast returns: it raised if the
\* connection closed meanwhile.
stale_after_send(b) == IF conn[b.cur] = "closed" THEN b.stale \cup {b.cur} ELSE b.stale

\* ------------------------------------------------------------------- Init
\* main_async up to its first await: the ChatBuffer is constructed (lines
\* 113-123), the first source handle exists, last_item_ts is now, nobody is
\* connected.
InitWith(cap_args, stale_args, retry_args) ==
    /\ \E arg \in cap_args : max_messages = Max(1, arg)
    /\ buffer = <<>>
    /\ ids = {}
    /\ added = FALSE
    /\ evicted = {}
    /\ clients = {}
    /\ stale_timeout \in stale_args
    /\ retry_wait \in retry_args
    /\ pc_loop = "top"
    /\ chat = 0
    /\ live = {0}
    /\ last_item_age = 0
    /\ waited = 0
    /\ close_tasks = {}
    /\ h_pc = [c \in Conns |-> "idle"]
    /\ conn = [c \in Conns |-> "new"]
    /\ bc = [t \in Tasks |-> NoBc]
    /\ sent = [c \in Conns |-> <<>>]
    /\ version = 0
    /\ batches = 0
    /\ accepts = 0
    /\ accept_age = 0
    /\ arrive_age = 0
    /\ reset_age = 0

Init == InitWith(0..MaxCap, 0..MaxAge, 0..MaxRetryWait)

\* The process runs until main_async returns.
Running == pc_loop # "exited"

\* The thread of the asyncio loop is not inside a synchronous call of the
\* ingestion loop, so the scheduler can run a task that is ready.
LoopThreadFree == pc_loop # "alive"

\* --------------------------------------------------------- ingestion loop
WaitPcs == {"wait_dead", "wait_poll", "wait_stale"}

\* The recreate paths without their chat.terminate() calls: the old handle
\* is left running.
terminate_skipped == live' = live

\* chat.terminate() under contextlib.suppress(Exception).
terminate == live' = live \ {chat}

\* Lines 310-323: the stale watchdog, entered with idle = time.monotonic() -
\* last_item_ts.  Either terminate and start the retry wait, or sleep 0.01
\* and loop.
watchdog(idle) ==
    IF stale_timeout > 0 /\ idle >= stale_timeout
    THEN /\ terminate
         /\ pc_loop' = "wait_stale"
         /\ waited' = 0
         /\ UNCHANGED <<chat, close_tasks>>
    ELSE /\ pc_loop' = "top"
         /\ UNCHANGED <<chat, live, waited, close_tasks>>

\* Line 273: the loop wakes from its sleep and asks chat.is_alive().  Not
\* alive: terminate and start the retry wait (lines 274-279).  Alive: start
\* the poll in a thread (line 287).
CheckAlive(alive) ==
    /\ pc_loop = "top"
    /\ IF alive
       THEN /\ pc_loop' = "poll"
            /\ UNCHANGED <<live, waited>>
       ELSE /\ terminate
            /\ pc_loop' = "wait_dead"
            /\ waited' = 0
    /\ UNCHANGED <<bufvars, hubvars, histvars, argvars, chat, last_item_age, close_tasks>>

\* Line 273 as a call that takes time: chat.is_alive() is called directly,
\* on the thread of the asyncio loop, so from the call to its return no
\* other task runs.  CheckAlive above is the same call taken as
\* instantaneous.
IsAliveCalled ==
    /\ pc_loop = "top"
    /\ pc_loop' = "alive"
    /\ UNCHANGED <<bufvars, hubvars, histvars, argvars, chat, live, last_item_age,
                   waited, close_tasks>>

IsAliveReturns(alive) ==
    /\ pc_loop = "alive"
    /\ IF alive
       THEN /\ pc_loop' = "poll"
            /\ UNCHANGED <<live, waited>>
       ELSE /\ terminate
            /\ pc_loop' = "wait_dead"
            /\ waited' = 0
    /\ UNCHANGED <<bufvars, hubvars, histvars, argvars, chat, last_item_age, close_tasks>>

\* Lines 288-292: chat.get() raised in the thread.
PollFails ==
    /\ pc_loop = "poll"
    /\ terminate
    /\ pc_loop' = "wait_poll"
    /\ waited' = 0
    /\ UNCHANGED <<bufvars, hubvars, histvars, argvars, chat, last_item_age, close_tasks>>

\* The batches chat.get().items may hold; the source reports one text per
\* message id.
Items == {[id |-> i, message |-> i] : i \in Ids}
Batches == UNION {[1..n -> Items] : n \in 0..MaxBatchLen}

\* Lines 299-300 with `if updated:` after the add loop: last_item_ts is
\* reset only by a cycle that accepted an item.
idle_after_accepted(items) ==
    IF process_items(buffer, ids, max_messages, items, FALSE, added).updated
    THEN 0 ELSE last_item_age

\* Lines 299-300 and 310: time.monotonic() - last_item_ts as the watchdog of
\* this cycle will see it; a batch that is not empty resets last_item_ts.
idle_after(items) == IF items # <<>> THEN 0 ELSE last_item_age

\* Lines 297-323: the poll returned `items`.  last_item_ts is reset if the
\* batch is not empty, the items are added, a dirty cycle renders and starts
\* its broadcast; when no send suspends the watchdog runs in the same step.
PollReturns(items) ==
    /\ pc_loop = "poll"
    /\ items # <<>> => batches < MaxBatches
    /\ LET r == process_items(buffer, ids, max_messages, items, FALSE, added)
           idle == idle_after(items)
       IN /\ buffer' = r.buffer
          /\ ids' = r.ids
          /\ added' = r.added
          /\ evicted' = evicted \cup evicted_in(buffer, ids, max_messages, items)
          /\ accepts' = accepts + accepted_in(buffer, ids, max_messages, items)
          /\ last_item_age' = idle
          /\ version' = IF r.updated THEN version + 1 ELSE version
          /\ batches' = IF items # <<>> THEN batches + 1 ELSE batches
          /\ accept_age' = IF r.updated THEN 0 ELSE accept_age
          /\ arrive_age' = IF items # <<>> THEN 0 ELSE arrive_age
          /\ IF r.updated /\ clients # {}
             THEN \E order \in Orders(clients) :
                    LET s == run_sends(order, {})
                        frame == [kind |-> "ChatBuffer",
                                  text |-> render_buffer(r.buffer, TRUE),
                                  by |-> Loop, ver |-> version + 1]
                    IN /\ broadcast_step(Loop, frame, clients, s)
                       /\ IF s.done
                          THEN watchdog(idle)
                          ELSE /\ pc_loop' = "bcast"
                               /\ UNCHANGED <<chat, live, waited, close_tasks>>
             ELSE /\ watchdog(idle)
                  /\ UNCHANGED <<clients, sent, bc>>
    /\ UNCHANGED <<max_messages, h_pc, conn, reset_age, argvars>>

\* Line 138 of broadcast, called from print_and_broadcast (line 307): the
\* send the loop is suspended in returns or raises; the loop goes on with
\* the remaining connections and, after the last, with the watchdog.
LoopSendReturns ==
    /\ pc_loop = "bcast"
    /\ conn[bc[Loop].cur] # "hung"
    /\ LET b == bc[Loop]
           s == run_sends(b.todo, stale_after_send(b))
       IN /\ broadcast_step(Loop, b.frame, b.start, s)
          /\ IF s.done
             THEN watchdog(last_item_age)
             ELSE UNCHANGED <<pc_loop, chat, live, waited, close_tasks>>
    /\ UNCHANGED <<bufvars, histvars, argvars, h_pc, conn, last_item_age>>

\* interruptible_wait(args.retry_wait): over once max(0, total_seconds) have
\* passed.
interruptible_wait_over == waited >= Max(0, retry_wait)

\* The identity of a newly constructed handle: one no object in use has.
FreshHandle ==
    CHOOSE h \in Handles :
        /\ h \notin live \cup {chat}
        /\ \A g \in Handles : g \notin live \cup {chat} => h <= g

\* The recreate without line 318: last_item_ts is never reset.
CreateChat_no_reset ==
    /\ pc_loop \in {"wait_dead", "wait_poll", "wait_stale"}
    /\ waited >= Max(0, retry_wait)
    /\ chat' = FreshHandle
    /\ live' = live \cup {FreshHandle}
    /\ reset_age' = IF pc_loop = "wait_stale" THEN 0 ELSE reset_age
    /\ pc_loop' = "top"
    /\ UNCHANGED <<bufvars, hubvars, argvars, waited, close_tasks, last_item_age,
                   version, batches, accepts, accept_age, arrive_age>>

\* The recreate with a new ChatBuffer state: the resident messages are
\* dropped when the new handle is built.
CreateChat_clears_buffer ==
    /\ pc_loop \in {"wait_dead", "wait_poll", "wait_stale"}
    /\ waited >= Max(0, retry_wait)
    /\ chat' = FreshHandle
    /\ live' = live \cup {FreshHandle}
    /\ last_item_age' = IF pc_loop = "wait_stale" THEN 0 ELSE last_item_age
    /\ reset_age' = IF pc_loop = "wait_stale" THEN 0 ELSE reset_age
    /\ pc_loop' = "top"
    /\ buffer' = <<>>
    /\ ids' = {}
    /\ UNCHANGED <<max_messages, added, evicted, hubvars, argvars, waited, close_tasks,
                   version, batches, accepts, accept_age, arrive_age>>

\* Lines 279-283, 292-295, 316-320: the retry wait is over and _create_chat
\* returns a new handle; only the stale path resets last_item_ts (line 318).
\* Then sleep 0.1 and loop.
CreateChat ==
    /\ pc_loop \in WaitPcs
    /\ interruptible_wait_over
    /\ chat' = FreshHandle
    /\ live' = live \cup {FreshHandle}
    /\ last_item_age' = IF pc_loop = "wait_stale" THEN 0 ELSE last_item_age
    /\ reset_age' = IF pc_loop = "wait_stale" THEN 0 ELSE reset_age
    /\ pc_loop' = "top"
    /\ UNCHANGED <<bufvars, hubvars, argvars, waited, close_tasks,
                   version, batches, accepts, accept_age, arrive_age>>

\* Lines 239, 325-334: pytchat.create raises inside _create_chat.  Nothing
\* in the loop catches it: the finally block terminates the handle and
\* starts one close task per connection in _clients, then awaits them.
CreateChatRaises ==
    /\ pc_loop \in WaitPcs
    /\ interruptible_wait_over
    /\ terminate
    /\ close_tasks' = clients
    /\ pc_loop' = IF clients = {} THEN "exited" ELSE "closing"
    /\ UNCHANGED <<bufvars, hubvars, histvars, argvars, chat, last_item_age, waited>>

\* Line 331: one close task finishes; the connection is closed.
CloseTask(c) ==
    /\ pc_loop = "closing"
    /\ c \in close_tasks
    /\ close_tasks' = close_tasks \ {c}
    /\ conn' = [conn EXCEPT ![c] = "closed"]
    /\ UNCHANGED <<bufvars, histvars, argvars, pc_loop, chat, live, last_item_age,
                   waited, clients, h_pc, bc, sent>>

\* Lines 331-334: ws.close raised in its task; gather(return_exceptions=True)
\* takes the exception as the task's result, and the connection stays as it
\* was.
CloseTaskFails(c) ==
    /\ pc_loop = "closing"
    /\ c \in close_tasks
    /\ close_tasks' = close_tasks \ {c}
    /\ UNCHANGED <<bufvars, histvars, argvars, pc_loop, chat, live, last_item_age,
                   waited, hubvars>>

\* Line 334: gather returns and main_async ends.
GatherReturns ==
    /\ pc_loop = "closing"
    /\ close_tasks = {}
    /\ pc_loop' = "exited"
    /\ UNCHANGED <<bufvars, hubvars, histvars, argvars, chat, live, last_item_age,
                   waited, close_tasks>>

\* ------------------------------------------------------------- ws_handler
\* ws_handler without the send of line 258: the connection is registered
\* and the handler yields without having sent the greeting.
Connect_no_greeting(c) ==
    /\ pc_loop # "exited"
    /\ h_pc[c] = "idle"
    /\ conn' = [conn EXCEPT ![c] = "open"]
    /\ clients' = clients \cup {c}
    /\ h_pc' = [h_pc EXCEPT ![c] = "greet"]
    /\ UNCHANGED <<bufvars, loopvars, histvars, argvars, bc, sent>>

\* Lines 255-258: a subscriber connects; its handler registers it and calls
\* ws.send with the greeting, which suspends.
Connect(c) ==
    /\ Running
    /\ LoopThreadFree
    /\ h_pc[c] = "idle"
    /\ conn' = [conn EXCEPT ![c] = "open"]
    /\ clients' = clients \cup {c}
    /\ sent' = [sent EXCEPT ![c] = Append(@, DataFrame(c))]
    /\ h_pc' = [h_pc EXCEPT ![c] = "greet"]
    /\ UNCHANGED <<bufvars, loopvars, histvars, argvars, bc>>

\* Lines 258-266: the greeting send returns.  If it raised, the finally
\* block unregisters the connection.  Otherwise line 260 renders the buffer
\* and broadcasts it to every connection in _clients.
GreetingReturns(c) ==
    /\ Running
    /\ LoopThreadFree
    /\ h_pc[c] = "greet"
    /\ conn[c] # "hung"
    /\ IF conn[c] = "closed"
       THEN /\ clients' = clients \ {c}
            /\ h_pc' = [h_pc EXCEPT ![c] = "done"]
            /\ UNCHANGED <<sent, bc>>
       ELSE IF clients = {}
            THEN /\ h_pc' = [h_pc EXCEPT ![c] = "drain"]
                 /\ UNCHANGED <<clients, sent, bc>>
            ELSE \E order \in Orders(clients) :
                   LET s == run_sends(order, {})
                   IN /\ broadcast_step(c, ChatBufferFrame(c), clients, s)
                      /\ h_pc' = [h_pc EXCEPT ![c] = IF s.done THEN "drain" ELSE "bcast"]
    /\ UNCHANGED <<bufvars, loopvars, histvars, argvars, conn>>

\* Line 138 of broadcast, called from line 260: the send the handler is
\* suspended in returns or raises; after the last connection the handler
\* starts draining incoming messages (line 263).
HandlerSendReturns(c) ==
    /\ Running
    /\ LoopThreadFree
    /\ h_pc[c] = "bcast"
    /\ conn[bc[c].cur] # "hung"
    /\ LET b == bc[c]
           s == run_sends(b.todo, stale_after_send(b))
       IN /\ broadcast_step(c, b.frame, b.start, s)
          /\ h_pc' = [h_pc EXCEPT ![c] = IF s.done THEN "drain" ELSE "bcast"]
    /\ UNCHANGED <<bufvars, loopvars, histvars, argvars, conn>>

\* Lines 263-266: the connection closed, `async for` ends and the finally
\* block unregisters the connection.
HandlerEnds(c) ==
    /\ Running
    /\ LoopThreadFree
    /\ h_pc[c] = "drain"
    /\ conn[c] = "closed"
    /\ clients' = clients \ {c}
    /\ h_pc' = [h_pc EXCEPT ![c] = "done"]
    /\ UNCHANGED <<bufvars, loopvars, histvars, argvars, conn, bc, sent>>

\* ------------------------------------------------------------ environment
\* The subscriber closes the connection, or the connection is lost.
PeerCloses(c) ==
    /\ Running
    /\ conn[c] \in {"open", "hung"}
    /\ conn' = [conn EXCEPT ![c] = "closed"]
    /\ UNCHANGED <<bufvars, loopvars, histvars, argvars, clients, h_pc, bc, sent>>

\* The subscriber stops reading for good: sends to it no longer complete.
PeerHangs(c) ==
    /\ Running
    /\ conn[c] = "open"
    /\ conn' = [conn EXCEPT ![c] = "hung"]
    /\ UNCHANGED <<bufvars, loopvars, histvars, argvars, clients, h_pc, bc, sent>>

\* One unit of time passes.
Age(a) == Min(a + 1, MaxAge)
Tick ==
    /\ Running
    /\ last_item_age' = Age(last_item_age)
    /\ accept_age' = Age(accept_age)
    /\ arrive_age' = Age(arrive_age)
    /\ reset_age' = Age(reset_age)
    /\ waited' = IF pc_loop \in WaitPcs THEN Min(waited + 1, Max(0, retry_wait)) ELSE waited
    /\ UNCHANGED <<bufvars, hubvars, argvars, pc_loop, chat, live, close_tasks,
                   version, batches, accepts>>

\* ------------------------------------------------------------------ specs
LoopStep ==
    \/ \E alive \in BOOLEAN : CheckAlive(alive)
    \/ PollFails
    \/ \E items \in Batches : PollReturns(items)
    \/ LoopSendReturns
    \/ CreateChat
    \/ CreateChatRaises
    \/ GatherReturns

HandlerStep(c) ==
    \/ GreetingReturns(c)
    \/ HandlerSendReturns(c)
    \/ HandlerEnds(c)

\* The whole program under every environment.
Next ==
    \/ LoopStep
    \/ \E c \in Conns : CloseTask(c)
    \/ \E c \in Conns : CloseTaskFails(c)
    \/ \E c \in Conns : Connect(c)
    \/ \E c \in Conns : HandlerStep(c)
    \/ \E c \in Conns : PeerCloses(c)
    \/ \E c \in Conns : PeerHangs(c)
    \/ Tick

Spec == Init /\ [][Next]_vars

\* ChatBuffer on its own: any sequence of add_message calls.
InitBuffer == InitWith(0..BufMaxCap, {0}, {0})

AddMessageCall(msg_id, text) ==
    LET r == add_message(buffer, ids, max_messages, msg_id, text)
    IN /\ buffer' = r.buffer
       /\ ids' = r.ids
       /\ added' = r.added
       /\ evicted' = evicted \cup popped(buffer, ids, max_messages, msg_id)
       /\ UNCHANGED <<max_messages, loopvars, hubvars, histvars, argvars>>

NextBuffer == \E msg_id \in 1..BufMaxId, text \in 1..BufMaxText : AddMessageCall(msg_id, text)

SpecBuffer == InitBuffer /\ [][NextBuffer]_vars

\* The fan-out: subscribers connect and close, the source stays alive, every
\* poll returns at most one item and the watchdog is disabled (stale_timeout
\* = 0), so the loop never leaves its poll cycle.  A subscriber that stops
\* reading only disables steps of the tasks that wait for it, and a
\* behaviour in which those steps are not taken shows that already.
InitHub == InitWith({MaxCap}, {0}, {0})

HubBatches == {b \in Batches : Len(b) <= 1}

NextHub ==
    \/ CheckAlive(TRUE)
    \/ \E items \in HubBatches : PollReturns(items)
    \/ LoopSendReturns
    \/ \E c \in Conns : Connect(c)
    \/ \E c \in Conns : HandlerStep(c)
    \/ \E c \in Conns : PeerCloses(c)

SpecHub == InitHub /\ [][NextHub]_vars

\* The ingestion loop with its recreate paths and the clock, and one
\* subscriber.
LoopConns == {1}

NextLoop ==
    \/ LoopStep
    \/ \E c \in LoopConns : CloseTask(c)
    \/ \E c \in LoopConns : CloseTaskFails(c)
    \/ \E c \in LoopConns : Connect(c)
    \/ \E c \in LoopConns : HandlerStep(c)
    \/ \E c \in LoopConns : PeerCloses(c)
    \/ \E c \in LoopConns : PeerHangs(c)
    \/ Tick

SpecLoop == Init /\ [][NextLoop]_vars

\* The watchdog's timing: the loop with its three recreate paths and the
\* clock, one subscriber that connects and closes, every poll returning at
\* most one item, and the buffer's capacity fixed.  Every creation succeeds
\* and no shutdown is requested, so the loop runs on.
InitWatchdog == InitWith({MaxCap}, 0..MaxAge, 0..MaxRetryWait)

NextWatchdog ==
    \/ \E alive \in BOOLEAN : CheckAlive(alive)
    \/ PollFails
    \/ \E items \in HubBatches : PollReturns(items)
    \/ LoopSendReturns
    \/ CreateChat
    \/ \E c \in LoopConns : Connect(c)
    \/ \E c \in LoopConns : HandlerStep(c)
    \/ \E c \in LoopConns : PeerCloses(c)
    \/ Tick

SpecWatchdog == InitWatchdog /\ [][NextWatchdog]_vars

\* The poll cycle and one subscriber under the scheduler's fairness: a task
\* that can run is eventually run (the asyncio loop runs every ready
\* callback; the poll thread returns).  What the subscriber does (close,
\* stop reading) and whether it connects is not the program's to decide and
\* gets no fairness.
NextFair ==
    \/ CheckAlive(TRUE)
    \/ \E items \in HubBatches : PollReturns(items)
    \/ LoopSendReturns
    \/ \E c \in LoopConns : Connect(c)
    \/ \E c \in LoopConns : HandlerStep(c)
    \/ \E c \in LoopConns : PeerCloses(c)
    \/ \E c \in LoopConns : PeerHangs(c)

Fairness ==
    /\ WF_vars(CheckAlive(TRUE))
    /\ WF_vars(\E items \in HubBatches : PollReturns(items))
    /\ WF_vars(LoopSendReturns)
    /\ \A c \in LoopConns : WF_vars(HandlerStep(c))

SpecFair == InitHub /\ [][NextFair]_vars /\ Fairness

\* The end of main_async under the scheduler's fairness: the loop with a
\* creation that may raise, one subscriber, no retry wait and no watchdog.
\* A close task whose connection answers is eventually over, by closing or
\* by raising; the close of a connection whose peer has stopped reading
\* waits for that peer and gets no fairness.
NextShutdown ==
    \/ \E alive \in BOOLEAN : CheckAlive(alive)
    \/ \E items \in HubBatches : PollReturns(items)
    \/ LoopSendReturns
    \/ CreateChat
    \/ CreateChatRaises
    \/ GatherReturns
    \/ \E c \in LoopConns : CloseTask(c)
    \/ \E c \in LoopConns : CloseTaskFails(c)
    \/ \E c \in LoopConns : Connect(c)
    \/ \E c \in LoopConns : HandlerStep(c)
    \/ \E c \in LoopConns : PeerCloses(c)
    \/ \E c \in LoopConns : PeerHangs(c)

FairShutdown ==
    /\ WF_vars(GatherReturns)
    /\ \A c \in LoopConns : WF_vars(conn[c] # "hung" /\ (CloseTask(c) \/ CloseTaskFails(c)))

SpecShutdown == InitHub /\ [][NextShutdown]_vars /\ FairShutdown

\* The poll cycle on its own: polls return batches of every length, the
\* source stays alive, the watchdog is disabled, one subscriber connects and
\* closes.
InitCycle == InitWith(0..MaxCap, {0}, {0})

NextCycle ==
    \/ CheckAlive(TRUE)
    \/ \E items \in Batches : PollReturns(items)
    \/ LoopSendReturns
    \/ \E c \in LoopConns : Connect(c)
    \/ \E c \in LoopConns : HandlerStep(c)
    \/ \E c \in LoopConns : PeerCloses(c)

SpecCycle == InitCycle /\ [][NextCycle]_vars

\* The poll cycle with the liveness check taking time, and one subscriber:
\* the source stays alive, the watchdog is disabled.
NextBlocking ==
    \/ IsAliveCalled
    \/ IsAliveReturns(TRUE)
    \/ \E items \in HubBatches : PollReturns(items)
    \/ LoopSendReturns
    \/ \E c \in LoopConns : Connect(c)
    \/ \E c \in LoopConns : HandlerStep(c)
    \/ \E c \in LoopConns : PeerCloses(c)

SpecBlocking == InitHub /\ [][NextBlocking]_vars

\* ----------------------------------------------------------------- claims
\* C1: after any sequence of add_message calls the buffer holds at most
\* max_messages messages, _ids is exactly the set of ids of the messages
\* in _buffer, and no id is in _buffer twice.
C1_BufferInvariant ==
    /\ Len(buffer) <= max_messages
    /\ ids = IdsOf(buffer)
    /\ \A i, j \in 1..Len(buffer) : buffer[i].msg_id = buffer[j].msg_id => i = j

\* A full buffer of the largest capacity whose oldest message is not the
\* first id added: an eviction has happened, and the last call added.
C1_Witness ==
    /\ max_messages = BufMaxCap
    /\ Len(buffer) = max_messages
    /\ added
    /\ 1 \notin ids
    /\ buffer[Len(buffer)].msg_id = 2

\* The ChatBuffer frames connection c got from its own handler or from the
\* ingestion loop, in order.
OwnOrLoop(c) ==
    SelectSeq(sent[c], LAMBDA f : f.kind = "ChatBuffer" /\ f.by \in {c, Loop})

\* C2: a subscriber gets the content of each dirty cycle at most once and in
\* order from its own snapshot and the loop's broadcasts (pre-N snapshot then
\* the cycle-N broadcast, or the post-N snapshot alone), and once its
\* snapshot is out and the loop is between broadcasts it has the content
\* of the latest cycle.
C2_ConnectConsistency ==
    \A c \in Conns :
        /\ \A i, j \in 1..Len(OwnOrLoop(c)) :
               i < j => OwnOrLoop(c)[i].ver < OwnOrLoop(c)[j].ver
        /\ (h_pc[c] = "drain" /\ conn[c] = "open" /\ pc_loop # "bcast")
               => \E i \in 1..Len(OwnOrLoop(c)) : OwnOrLoop(c)[i].ver = version

\* C3: the first frame a connection gets is the Data greeting, and no later
\* frame is a greeting.
C3_GreetingFirst ==
    \A c \in Conns :
        \A i \in 1..Len(sent[c]) : (sent[c][i].kind = "Data") <=> (i = 1)

\* A connection that got, after its greeting, a frame of the ingestion loop
\* and a frame of another subscriber's connect.
C3_Witness ==
    \E c \in Conns :
        /\ \E i \in 2..Len(sent[c]) : sent[c][i].by = Loop
        /\ \E i \in 2..Len(sent[c]) : sent[c][i].by \notin {c, Loop}

\* C4: every ChatBuffer frame a connection gets is its own snapshot (at most
\* one) or the broadcast of a dirty cycle (one per cycle); none comes from
\* another subscriber's connect.
C4_OnlySnapshotAndCycles ==
    \A c \in Conns :
        /\ \A i \in 1..Len(sent[c]) :
               sent[c][i].kind = "ChatBuffer" => sent[c][i].by \in {c, Loop}
        /\ \A i, j \in 1..Len(sent[c]) :
               (/\ sent[c][i].kind = "ChatBuffer"
                /\ sent[c][i].by = sent[c][j].by
                /\ sent[c][i].ver = sent[c][j].ver
                /\ sent[c][j].kind = "ChatBuffer") => i = j

\* C5: a loop broadcast that waits on a subscriber that never drains ends:
\* the subscriber is dropped from _clients and the loop leaves broadcast.
C5_HungSubscriberDropped ==
    \A c \in Conns :
        (pc_loop = "bcast" /\ bc[Loop].cur = c /\ conn[c] = "hung")
            ~> (c \notin clients /\ pc_loop # "bcast")

\* C6: when a broadcast returns (in the step that calls it, if no send
\* suspended, or in a later one), the connections it removes from _clients
\* are connections it started with whose sends failed (they are closed);
\* every connection it started with that is not closed is still in _clients
\* and was sent the frame, as was every one that stays in _clients; and the
\* caller goes on normally (the loop to its watchdog, a handler to its drain
\* loop).
BroadcastCalled(t) ==
    /\ clients # {}
    /\ IF t = Loop
       THEN pc_loop = "poll" /\ version' # version
       ELSE h_pc[t] = "greet" /\ h_pc'[t] \in {"bcast", "drain"}
BroadcastReturns(t) == (bc[t].active \/ BroadcastCalled(t)) /\ ~bc'[t].active
StartSet(t) == IF bc[t].active THEN bc[t].start ELSE clients
FrameVer(t) ==
    IF bc[t].active THEN bc[t].frame.ver ELSE IF t = Loop THEN version' ELSE version
WasSent(c, t) ==
    \E i \in 1..Len(sent'[c]) :
        /\ sent'[c][i].kind = "ChatBuffer"
        /\ sent'[c][i].by = t
        /\ sent'[c][i].ver = FrameVer(t)
C6_SendFailureIsLocal ==
    [][\A t \in Tasks :
         BroadcastReturns(t) =>
           LET removed == clients \ clients'
           IN /\ removed \subseteq StartSet(t)
              /\ \A c \in removed : conn[c] = "closed"
              /\ \A c \in StartSet(t) \cap clients :
                     conn[c] # "closed" => c \in clients' /\ WasSent(c, t)
              /\ \A c \in StartSet(t) \cap clients' : WasSent(c, t)
              /\ IF t = Loop
                 THEN pc_loop' \in {"top", "wait_stale"}
                 ELSE h_pc'[t] = "drain"]_vars

\* A broadcast of the loop is over; it dropped a closed connection whose
\* handler has not ended, and another connection has its frame.
C6_Witness ==
    \E c1, c2 \in Conns :
        /\ c1 # c2
        /\ pc_loop = "top"
        /\ conn[c1] = "closed" /\ c1 \notin clients /\ h_pc[c1] = "drain"
        /\ c2 \in clients
        /\ \E i \in 1..Len(sent[c2]) : sent[c2][i].by = Loop /\ sent[c2][i].ver = version

\* The watchdog of lines 310-311 runs in this step / fires in this step.
WatchdogRuns == pc_loop \in {"poll", "bcast"} /\ pc_loop' \in {"top", "wait_stale"}
StaleFires == pc_loop \in {"poll", "bcast"} /\ pc_loop' = "wait_stale"

C8_RecreateResetsIdle ==
    [][(pc_loop \in WaitPcs /\ pc_loop' = "top") => last_item_age' = 0]_vars

\* C9: the ingestion loop never leaves its while loop.
C9_LoopNeverExits == pc_loop \notin {"closing", "exited"}

\* C10: the recreate path is left only towards the poll cycle, with a new
\* source handle.
BackToActive == pc_loop' = "top" /\ chat' # chat /\ chat' \in live'
C10_RecoveryCompletes ==
    [][(pc_loop \in WaitPcs) => (pc_loop' = pc_loop \/ BackToActive)]_vars

\* C11: add_message on a resident id returns False, leaves _buffer and _ids
\* as they are and pops nothing; and a call that returned False has left
\* _buffer and _ids as they were.
C11_ResidentIdRejected ==
    [][/\ \A m \in IdsOf(buffer), t \in 1..BufMaxText :
            LET r == add_message(buffer, ids, max_messages, m, t)
            IN /\ ~r.added
               /\ r.buffer = buffer
               /\ r.ids = ids
               /\ popped(buffer, ids, max_messages, m) = {}
       /\ ~added' => (buffer' = buffer /\ ids' = ids /\ evicted' = evicted)]_vars

\* The last call was rejected although the buffer is full and has evicted
\* before.
C11_Witness ==
    /\ ~added
    /\ max_messages > 1
    /\ Len(buffer) = max_messages
    /\ evicted # {}

\* C12: a call that accepts appends the new message as the newest; at
\* capacity it removes exactly the oldest message (the head: messages are
\* kept in acceptance order) and its id, below capacity it removes nothing;
\* the other messages keep their order.
C12_FifoEviction ==
    [][buffer' # buffer =>
         LET n == Len(buffer')
         IN /\ added'
            /\ n >= 1
            /\ buffer'[n].msg_id \notin IdsOf(buffer)
            /\ IF Len(buffer) >= max_messages
               THEN /\ SubSeq(buffer', 1, n - 1) = Tail(buffer)
                    /\ IdsOf(buffer) \ IdsOf(buffer') = {Head(buffer).msg_id}
                    /\ evicted' = evicted \cup {Head(buffer).msg_id}
                    /\ ids' = (ids \ {Head(buffer).msg_id}) \cup {buffer'[n].msg_id}
               ELSE /\ SubSeq(buffer', 1, n - 1) = buffer
                    /\ evicted' = evicted
                    /\ ids' = ids \cup {buffer'[n].msg_id}]_vars

\* A buffer of the largest capacity that has evicted twice and just
\* accepted.
C12_Witness ==
    /\ max_messages = BufMaxCap
    /\ Len(buffer) = max_messages
    /\ added
    /\ Cardinality(evicted) >= 2

\* C13: add_message returns False exactly for the ids resident at the call;
\* an id that is not resident, evicted earlier or never seen, is accepted
\* and becomes the newest message.
C13_RejectsIffResident ==
    \A m \in 1..BufMaxId, t \in 1..BufMaxText :
        LET r == add_message(buffer, ids, max_messages, m, t)
        IN /\ r.added <=> m \notin IdsOf(buffer)
           /\ m \notin IdsOf(buffer) =>
                  /\ r.buffer[Len(r.buffer)] = ChatMessage(m, t)
                  /\ m \in r.ids

\* The newest message was accepted by the last call and its id had been
\* evicted before: an evicted id was added again.
C13_Witness ==
    /\ added
    /\ Len(buffer) >= 2
    /\ buffer[Len(buffer)].msg_id \in evicted

\* The poll of this step returned a batch (lines 297-307 run in this step).
PollCompletes == pc_loop = "poll" /\ pc_loop' \notin {"poll", "wait_poll"}

LoopFrames(c) == SelectSeq(sent[c], LAMBDA f : f.by = Loop /\ f.kind = "ChatBuffer")

\* C14: a poll cycle renders and broadcasts once if add_message accepted at
\* least one of its items, however many, and not at all otherwise: the
\* count of dirty cycles grows by one exactly when an item was accepted, a
\* cycle that accepted nothing sends nothing and starts no broadcast, a
\* cycle that accepted starts one broadcast of the buffer as it is after
\* the whole batch, and no connection gets two frames of one cycle.
C14_CoalescedBroadcast ==
    [][/\ PollCompletes =>
            /\ version' = version + (IF accepts' > accepts THEN 1 ELSE 0)
            /\ accepts' = accepts =>
                   (sent' = sent /\ ~bc'[Loop].active /\ pc_loop' # "bcast")
            /\ \A c \in Conns :
                   sent'[c] # sent[c] =>
                       sent'[c] = Append(sent[c],
                                         [kind |-> "ChatBuffer",
                                          text |-> render_buffer(buffer', TRUE),
                                          by |-> Loop, ver |-> version'])
            /\ (accepts' > accepts /\ \E c \in clients : conn[c] # "closed")
                   => \E c \in clients : sent'[c] # sent[c]
       /\ \A c \in Conns : \A i, j \in 1..Len(LoopFrames(c)) :
              LoopFrames(c)[i].ver = LoopFrames(c)[j].ver => i = j]_vars

\* One cycle accepted two items and the subscriber got one frame for it,
\* showing both.
C14_Witness ==
    /\ pc_loop = "top"
    /\ accepts = 2
    /\ version = 1
    /\ \E c \in Conns : /\ Len(LoopFrames(c)) = 1
                         /\ Len(LoopFrames(c)[1].text) = 5

\* C15: a recreate, whatever triggered it, leaves the buffer, its id set
\* and _clients as they are and sends nothing.  While the loop is in a
\* recreate no step changes _buffer or _ids and no frame of the loop
\* appears; the step that builds the new handle changes neither _clients
\* nor the connections nor what was sent; the step that starts a recreate
\* sends nothing, and changes _buffer only by the items the cycle accepted
\* and _clients only by ending the cycle's broadcast before it.
C15_RecreateLeavesBufferAndHub ==
    [][/\ pc_loop \in WaitPcs =>
            /\ buffer' = buffer
            /\ ids' = ids
            /\ \A c \in Conns :
                   SelectSeq(sent'[c], LAMBDA f : f.by = Loop /\ f.kind = "ChatBuffer")
                       = LoopFrames(c)
       /\ (pc_loop \in WaitPcs /\ pc_loop' # pc_loop) =>
            (clients' = clients /\ sent' = sent /\ conn' = conn)
       /\ (pc_loop \notin WaitPcs /\ pc_loop' \in WaitPcs) =>
            /\ sent' = sent
            /\ conn' = conn
            /\ accepts' = accepts => (buffer' = buffer /\ ids' = ids)
            /\ version' = version /\ pc_loop = "poll" => clients' = clients
            /\ pc_loop' \in {"wait_dead", "wait_poll"} =>
                   (buffer' = buffer /\ ids' = ids /\ clients' = clients)]_vars

\* A staleness recreate has just built a new handle (line 318 has just
\* reset last_item_ts, later than the last item arrived); the buffer still
\* holds a message and an open subscriber that got a frame of the loop is
\* still registered.
C15_Witness ==
    /\ pc_loop = "top"
    /\ chat # 0
    /\ reset_age = 0
    /\ arrive_age > 0
    /\ buffer # <<>>
    /\ \E c \in clients : conn[c] = "open" /\ Len(LoopFrames(c)) >= 1

\* C16: once the finally block of main_async has started its close tasks,
\* main_async ends, whatever the connections do.
C16_ShutdownCompletes == (pc_loop = "closing") ~> (pc_loop = "exited")

SourceCallInProgress == pc_loop \in {"alive", "poll"}

\* C18: while a call into the source is in progress, a connection can be
\* accepted and every handler whose awaited send or receive is over can
\* take its next step (send its snapshot, go on with its fan-out, end).
C18_SourceCallsOffLoop ==
    SourceCallInProgress =>
        \A c \in LoopConns :
            /\ h_pc[c] = "idle" => ENABLED Connect(c)
            /\ (h_pc[c] = "greet" /\ conn[c] # "hung") => ENABLED GreetingReturns(c)
            /\ (h_pc[c] = "bcast" /\ conn[bc[c].cur] # "hung")
                   => ENABLED HandlerSendReturns(c)
            /\ (h_pc[c] = "drain" /\ conn[c] = "closed") => ENABLED HandlerEnds(c)

\* C19: at most one source handle is not terminated, and it is the one the
\* loop holds; the handle the loop checks or polls is not terminated;
\* during a recreate none is left; a new handle is built only after the
\* old one was terminated, and the old one is not used again; a poll is
\* only started by a liveness check that said alive, and a handle that
\* said not alive is terminated without being polled.
C19_OneLiveHandle ==
    [][/\ Cardinality(live) <= 1
       /\ live \subseteq {chat}
       /\ pc_loop \in {"top", "poll", "bcast"} => live = {chat}
       /\ pc_loop \in WaitPcs => live = {}
       /\ chat' # chat => (live = {} /\ live' = {chat'})
       /\ (pc_loop' = "poll" /\ pc_loop # "poll") =>
              (pc_loop = "top" /\ chat' = chat /\ live' = {chat})
       /\ (pc_loop = "top" /\ live' = {}) => pc_loop' = "wait_dead"]_vars

\* The loop polls a handle that a recreate built.
C19_Witness ==
    /\ pc_loop = "poll"
    /\ chat # 0
    /\ live = {chat}

\* The ChatBuffer frames connection c got, in order.
BufferFrames(c) == SelectSeq(sent[c], LAMBDA f : f.kind = "ChatBuffer")

\* C20: the ChatBuffer frames a connection gets never go back in buffer
\* history (a frame rendering the buffer after fewer dirty cycles never
\* follows one rendering it after more), and when no broadcast is in
\* flight the last frame of a subscriber whose snapshot is out renders the
\* buffer as it is.
C20_FramesFollowHistory ==
    \A c \in Conns :
        /\ \A i, j \in 1..Len(BufferFrames(c)) :
               i < j => BufferFrames(c)[i].ver <= BufferFrames(c)[j].ver
        /\ (/\ \A t \in Tasks : ~bc[t].active
            /\ h_pc[c] = "drain"
            /\ conn[c] = "open"
            /\ c \in clients)
               => /\ BufferFrames(c) # <<>>
                  /\ BufferFrames(c)[Len(BufferFrames(c))].text = render_buffer(buffer, TRUE)
====
